---------------------------- MODULE Spec2Model ----------------------------
(***************************************************************************)
(* Model of validations/PandasValidation.py: the PandasValidations class   *)
(* (constructor, __enter__, __exit__) together with the with-statement     *)
(* that drives it and the collaborators it calls (pandas readers, the      *)
(* Great Expectations context, the logger).                                *)
(***************************************************************************)
EXTENDS Naturals, Sequences, FiniteSets, TLC

\* ------------------------------------------------------------------ bounds
\* Number of with-statements the caller may run on one session instance.
MaxCycles == 2

\* ------------------------------------------------------------ value spaces
\* Python's None, for every optional value.
None == "None"

\* Suite names known to the engine / usable as expectation_suite_name.
Names == {"s1", "s2"}

\* In-memory tables a caller may pass as df (references to DataFrames).
DFArgs == {None, "mem1", "mem2"}

\* Values a caller may pass as file_path.
PathArgs == {None, "a.parquet", "b.csv", "missing.csv"}

\* Values a caller may pass as file_type ("json" stands for any other string).
TypeArgs == {None, "parquet", "csv", "json"}

\* Errors the body of the with-statement may raise.
BodyErrors == {"RuntimeError", "KeyError"}

\* The files on disk: the format each path really holds (None: no such file).
FileFormat(path) ==
    CASE path = "a.parquet" -> "parquet"
      [] path = "b.csv" -> "csv"
      [] OTHER -> None

\* The table a successful read of a path yields (a fresh DataFrame).
TableOf(path) == "file:" \o path

\* A table produced by parsing a file of the wrong format as delimited text.
Garbage(path) == "garbage:" \o path

\* df.shape of every table of the model.
Shape(df) ==
    CASE df = "mem1" -> <<3, 2>>
      [] df = "mem2" -> <<0, 1>>
      [] df = "file:a.parquet" -> <<3, 2>>
      [] df = "file:b.csv" -> <<2, 2>>
      [] OTHER -> <<1, 1>>

\* The outcome of a reader that raises.
Raise == "raise"

\* pd.read_parquet(path): the table, or an error for a missing path, a
\* missing file or a file that is not parquet.
read_parquet(path) ==
    IF path # None /\ FileFormat(path) = "parquet"
    THEN {TableOf(path)}
    ELSE {Raise}

\* pd.read_csv(path): the table, or an error for a missing path or file; a
\* binary file either fails to decode or parses to a meaningless table.
read_csv(path) ==
    IF path = None \/ FileFormat(path) = None
    THEN {Raise}
    ELSE IF FileFormat(path) = "csv"
         THEN {TableOf(path)}
         ELSE {Raise, Garbage(path)}

\* ------------------------------------------------------------------ state
VARIABLES
    pc,           \* where the caller is (see TypeOK)
    args,         \* the arguments of the constructor call
    self,         \* the session object's attributes
    store,        \* the engine context's content: suites, datasources, assets
    reads,        \* the reader calls made so far, <<reader, path>>
    logs,         \* the shapes logged so far
    validator,    \* the value yielded by the last successful __enter__
    bodyExc,      \* what the body of the with-statement raised (None: nothing)
    error,        \* the exception the caller saw from the last operation
    failedAt,     \* the step of the last __enter__ that raised (0: none)
    lifecycle,    \* Unresolved / Resolved / Active / Closed
    enterCalls,   \* number of __enter__ calls so far
    exitCalls,    \* number of __exit__ calls so far
    entryStore    \* the context's content when the last __enter__ was called

vars == <<pc, args, self, store, reads, logs, validator, bodyExc, error,
          failedAt, lifecycle, enterCalls, exitCalls, entryStore>>

\* No session object: the constructor has not run, or it raised.
NoSession == [df |-> None, gx_suite_name |-> None, context |-> 0]

\* No validator has been yielded.
NoValidator == [batch |-> None, suite |-> None, context |-> 0]

\* No constructor call has been made.
NoArgs == [expectation_suite_name |-> None, df |-> None,
           file_path |-> None, file_type |-> None]

\* Contents the engine's context store may have before the session is used:
\* at most one suite per name, any datasources.
InitialStores ==
    [suites : [Names -> {0, 1}],
     datasources : SUBSET {"pandas_datasource", "other_ds"},
     assets : {{}}]

Init ==
    /\ pc = "start"
    /\ args = NoArgs
    /\ self = NoSession
    /\ store \in InitialStores
    /\ reads = <<>>
    /\ logs = <<>>
    /\ validator = NoValidator
    /\ bodyExc = None
    /\ error = None
    /\ failedAt = 0
    /\ lifecycle = "Unresolved"
    /\ enterCalls = 0
    /\ exitCalls = 0
    /\ entryStore = store

\* ------------------------------------------------------------ constructor
\* Line 47 with "and" for "or": only a construction with neither file_path
\* nor file_type is rejected here.
NeedsSource_both(df, file_path, file_type) ==
    df = None /\ (file_path = None /\ file_type = None)

\* Line 47: neither a table nor a complete file source was given.
NeedsSource(df, file_path, file_type) ==
    df = None /\ (file_path = None \/ file_type = None)

\* Line 49 with one more accepted format in the list.
BadFileType_lax(file_type) == file_type \notin {"parquet", "csv", "json"}

\* Line 49: file_type not in ["parquet", "csv"].
BadFileType(file_type) == file_type \notin {"parquet", "csv"}

\* Lines 52-55: the reader the file type selects.
ReaderOf(file_type) == IF file_type = "parquet" THEN "read_parquet" ELSE "read_csv"

\* Lines 52-55: the possible results of loading the table from the file.
LoadResults(file_path, file_type) ==
    IF file_type = "parquet" THEN read_parquet(file_path) ELSE read_csv(file_path)

\* PandasValidations.__init__
__init__ ==
    /\ pc = "start"
    /\ \E name \in Names, df \in DFArgs, file_path \in PathArgs, file_type \in TypeArgs :
        /\ args' = [expectation_suite_name |-> name, df |-> df,
                    file_path |-> file_path, file_type |-> file_type]
        /\ IF NeedsSource(df, file_path, file_type) \/ BadFileType(file_type)
           THEN /\ error' = "ValueError"
                /\ pc' = "init_raised"
                /\ UNCHANGED <<self, reads, logs, lifecycle>>
           ELSE IF df = None
           THEN \E r \in LoadResults(file_path, file_type) :
                /\ reads' = Append(reads, <<ReaderOf(file_type), file_path>>)
                /\ IF r = Raise
                   THEN /\ error' = "DataLoadError"
                        /\ pc' = "init_raised"
                        /\ UNCHANGED <<self, logs, lifecycle>>
                   ELSE /\ self' = [df |-> r, gx_suite_name |-> name, context |-> 0]
                        /\ logs' = Append(logs, Shape(r))
                        /\ error' = None
                        /\ pc' = "resolved"
                        /\ lifecycle' = "Resolved"
           ELSE /\ self' = [df |-> df, gx_suite_name |-> name, context |-> 0]
                /\ logs' = Append(logs, Shape(df))
                /\ error' = None
                /\ pc' = "resolved"
                /\ lifecycle' = "Resolved"
                /\ UNCHANGED reads
    /\ UNCHANGED <<store, validator, bodyExc, failedAt, enterCalls, exitCalls, entryStore>>

\* ----------------------------------------------------------- engine calls
\* Steps of __enter__, in the order the code runs them.
StepGetContext == 1
StepAddSuite == 2
StepAddPandas == 3
StepAddAsset == 4
StepBatchRequest == 5
StepGetValidator == 6

\* Step k of an __enter__ that raised at step failAt (0: nowhere) completed.
Done(k, failAt) == failAt = 0 \/ failAt > k

\* Line 63 calling a plain add: a suite is added whether or not one exists.
add_expectation_suite(st, name) ==
    [st EXCEPT !.suites[name] = @ + 1]

\* context.add_or_update_expectation_suite(name): creates the suite when no
\* suite has the name, updates the existing one otherwise.
add_or_update_expectation_suite(st, name) ==
    [st EXCEPT !.suites[name] = IF @ = 0 THEN 1 ELSE @]

\* context.sources.add_pandas(name="pandas_datasource")
add_pandas(st) ==
    [st EXCEPT !.datasources = @ \cup {"pandas_datasource"}]

\* datasource.add_dataframe_asset(name="df_asset")
add_dataframe_asset(st) ==
    [st EXCEPT !.assets = @ \cup {<<"pandas_datasource", "df_asset">>}]

\* context.delete_expectation_suite(name): removes the suite of that name.
delete_expectation_suite(st, name) ==
    [st EXCEPT !.suites[name] = 0]

\* __enter__ without line 63: the suite is never registered.
enter_store_nosuite(st, name, failAt) ==
    LET s3 == IF Done(StepAddPandas, failAt)
              THEN [st EXCEPT !.datasources = @ \cup {"pandas_datasource"}]
              ELSE st
    IN IF Done(StepAddAsset, failAt)
       THEN [s3 EXCEPT !.assets = @ \cup {<<"pandas_datasource", "df_asset">>}]
       ELSE s3

\* __enter__ with line 63 moved after the validator is acquired: the suite
\* is registered only by an entry that succeeds.
enter_store_suite_last(st, name, failAt) ==
    LET s3 == IF Done(StepAddPandas, failAt)
              THEN [st EXCEPT !.datasources = @ \cup {"pandas_datasource"}]
              ELSE st
        s4 == IF Done(StepAddAsset, failAt)
              THEN [s3 EXCEPT !.assets = @ \cup {<<"pandas_datasource", "df_asset">>}]
              ELSE s3
    IN IF failAt = 0
       THEN [s4 EXCEPT !.suites[name] = IF @ = 0 THEN 1 ELSE @]
       ELSE s4

\* The context's content after an __enter__ that raised at step failAt
\* (0: that returned): the engine calls that completed, in code order.
enter_store(st, name, failAt) ==
    LET s2 == IF Done(StepAddSuite, failAt)
              THEN add_or_update_expectation_suite(st, name) ELSE st
        s3 == IF Done(StepAddPandas, failAt) THEN add_pandas(s2) ELSE s2
        s4 == IF Done(StepAddAsset, failAt) THEN add_dataframe_asset(s3) ELSE s3
    IN s4

\* The validator get_validator yields: bound to the batch request over
\* self.df and to the suite name, in the context just acquired.
get_validator(session, ctx) ==
    [batch |-> session.df, suite |-> session.gx_suite_name, context |-> ctx]

\* The session object exists (the constructor returned).
Constructed == pc \notin {"start", "init_raised"}

\* PandasValidations.__enter__, called by a with-statement on the session.
\* Any engine call may raise; the calls before it have taken effect.
__enter__ ==
    /\ pc \in {"resolved", "closed", "enter_raised", "exit_raised"}
    /\ enterCalls < MaxCycles
    /\ \E failAt \in 0..StepGetValidator :
        /\ enterCalls' = enterCalls + 1
        /\ entryStore' = store
        /\ failedAt' = failAt
        /\ self' = IF Done(StepGetContext, failAt)
                   THEN [self EXCEPT !.context = enterCalls + 1]
                   ELSE self
        /\ store' = enter_store(store, self.gx_suite_name, failAt)
        /\ IF failAt = 0
           THEN /\ validator' = get_validator(self, enterCalls + 1)
                /\ error' = None
                /\ pc' = "active"
                /\ lifecycle' = "Active"
           ELSE /\ error' = "EngineError"
                /\ pc' = "enter_raised"
                /\ UNCHANGED <<validator, lifecycle>>
    /\ UNCHANGED <<args, reads, logs, bodyExc, exitCalls>>

\* The body of the with-statement runs to its end.
BodyReturns ==
    /\ pc = "active"
    /\ pc' = "body_done"
    /\ bodyExc' = None
    /\ UNCHANGED <<args, self, store, reads, logs, validator, error, failedAt,
                   lifecycle, enterCalls, exitCalls, entryStore>>

\* The body of the with-statement raises.
BodyRaises ==
    /\ pc = "active"
    /\ \E e \in BodyErrors : bodyExc' = e
    /\ pc' = "body_done"
    /\ UNCHANGED <<args, self, store, reads, logs, validator, error, failedAt,
                   lifecycle, enterCalls, exitCalls, entryStore>>

\* __exit__ ending in "return True": the body's exception is swallowed.
exit_return_true == "True"

\* What __exit__ returns: it has no return statement.
exit_return == None

\* Python truth value of what __exit__ returned.
Truthy(v) == v = "True"

\* __exit__ with an empty body: nothing is deleted.
exit_store_keep(st, session) == st

\* __exit__ tearing the whole context down instead of deleting one suite.
exit_store_teardown(st, session) ==
    [suites |-> [n \in Names |-> 0], datasources |-> {}, assets |-> {}]

\* The context's content after the body of __exit__.
exit_store(st, session) == delete_expectation_suite(st, session.gx_suite_name)

\* __exit__ releasing the table as well: self.df = None.
exit_self_release(session) == [session EXCEPT !.df = None]

\* The session's attributes after __exit__.
exit_self(session) == session

\* PandasValidations.__exit__, called by the with-statement when the body
\* is left; the deletion may raise. The with-statement re-raises the body's
\* exception unless __exit__ returned a true value.
__exit__ ==
    /\ pc = "body_done"
    /\ exitCalls' = exitCalls + 1
    /\ \E raises \in BOOLEAN :
        IF raises
        THEN /\ error' = "EngineError"
             /\ pc' = "exit_raised"
             /\ UNCHANGED <<self, store, lifecycle>>
        ELSE /\ store' = exit_store(store, self)
             /\ self' = exit_self(self)
             /\ error' = IF bodyExc # None /\ ~Truthy(exit_return)
                         THEN bodyExc ELSE None
             /\ pc' = "closed"
             /\ lifecycle' = "Closed"
    /\ UNCHANGED <<args, reads, logs, validator, bodyExc, failedAt,
                   enterCalls, entryStore>>

Next ==
    \/ __init__
    \/ __enter__
    \/ BodyReturns
    \/ BodyRaises
    \/ __exit__

Spec == Init /\ [][Next]_vars

TypeOK ==
    /\ pc \in {"start", "init_raised", "resolved", "active", "body_done",
               "closed", "enter_raised", "exit_raised"}
    /\ lifecycle \in {"Unresolved", "Resolved", "Active", "Closed"}
    /\ enterCalls \in 0..MaxCycles
    /\ exitCalls \in 0..MaxCycles
    /\ failedAt \in 0..StepGetValidator
    /\ bodyExc \in BodyErrors \cup {None}

\* ------------------------------------------------------------ properties

\* C1: given a table (df), construction succeeds whether file_path and
\* file_type are absent or present and valid, reads no file, and self.df is
\* the table passed in.
C1_TableConstructionSucceeds ==
    ( /\ pc # "start"
      /\ args.df # None
      /\ args.file_type \in {None, "parquet", "csv"}
      /\ (args.file_path = None \/ FileFormat(args.file_path) # None) )
    => ( /\ pc # "init_raised"
         /\ reads = <<>>
         /\ self.df = args.df )

\* C2: when the body raised and the deletion in __exit__ succeeded, the
\* suite named gx_suite_name is gone from the context and the caller sees
\* the body's own error.
C2_BodyErrorPropagates ==
    (pc = "closed" /\ bodyExc # None)
    => ( /\ store.suites[self.gx_suite_name] = 0
         /\ error = bodyExc )

C2_Witness ==
    /\ pc = "closed"
    /\ bodyExc = "KeyError"
    /\ error = "KeyError"

\* C3: the suite named gx_suite_name is registered while the session is
\* Active and absent once __exit__ has returned, whatever the context held
\* before.
C3_CreateThenDelete ==
    /\ lifecycle = "Active" => store.suites[self.gx_suite_name] >= 1
    /\ pc = "closed" => store.suites[self.gx_suite_name] = 0

C3_Witness ==
    /\ pc = "closed"
    /\ bodyExc = None
    /\ enterCalls = 1
    /\ store.suites[self.gx_suite_name] = 0

\* C4: a construction without a table and without file_path or without
\* file_type raises ValueError, yields no session, reads no file and logs
\* nothing.
C4_MissingSourceRejected ==
    ( /\ pc # "start"
      /\ args.df = None
      /\ (args.file_path = None \/ args.file_type = None) )
    => ( /\ pc = "init_raised"
         /\ error = "ValueError"
         /\ self = NoSession
         /\ reads = <<>>
         /\ logs = <<>> )

C4_Witness ==
    /\ pc = "init_raised"
    /\ args.df = None
    /\ args.file_path = None
    /\ args.file_type = "csv"
    /\ error = "ValueError"

\* C5: a construction whose file_type is given and is neither parquet nor
\* csv raises ValueError, with or without a table and whatever the path,
\* before any reader is called.
C5_UnknownFileTypeRejected ==
    (pc # "start" /\ args.file_type \notin {None, "parquet", "csv"})
    => ( /\ pc = "init_raised"
         /\ error = "ValueError"
         /\ self = NoSession
         /\ reads = <<>> )

C5_Witness ==
    /\ pc = "init_raised"
    /\ args.file_type = "json"
    /\ args.df = "mem1"
    /\ args.file_path = "a.parquet"
    /\ error = "ValueError"

\* C6 as stated: once the session is Closed no step makes it Active again.
C6_ClosedIsFinal ==
    [][lifecycle = "Closed" => lifecycle' # "Active"]_vars

\* C6 as amended: the lifecycle changes only by Unresolved -> Resolved,
\* Resolved -> Active, Active -> Closed and Closed -> Active; a Closed
\* session becomes Active again by a further successful __enter__, which
\* registers the suite again and yields a new validator.
C6_LifecycleSteps ==
    [][ \/ lifecycle' = lifecycle
        \/ <<lifecycle, lifecycle'>> \in {<<"Unresolved", "Resolved">>,
                                          <<"Resolved", "Active">>,
                                          <<"Active", "Closed">>}
        \/ /\ lifecycle = "Closed"
           /\ lifecycle' = "Active"
           /\ enterCalls' = enterCalls + 1
           /\ store'.suites[self.gx_suite_name] >= 1
           /\ validator' = get_validator(self', enterCalls')
           /\ validator' # validator ]_vars

C6_Witness ==
    /\ pc = "active"
    /\ lifecycle = "Active"
    /\ enterCalls = 2
    /\ exitCalls = 1
    /\ entryStore.suites[self.gx_suite_name] = 0
    /\ store.suites[self.gx_suite_name] = 1

\* C7: __exit__ leaves the context handle, the datasource and asset
\* registered on entry, and every suite of another name as they were.
C7_ExitFrame ==
    [][(pc = "body_done" /\ pc' # "body_done")
       => ( /\ self'.context = self.context
            /\ store'.datasources = store.datasources
            /\ store'.assets = store.assets
            /\ "pandas_datasource" \in store'.datasources
            /\ <<"pandas_datasource", "df_asset">> \in store'.assets
            /\ \A n \in Names \ {self.gx_suite_name} :
                  store'.suites[n] = store.suites[n] )]_vars

C7_Witness ==
    /\ pc = "closed"
    /\ \E n \in Names \ {self.gx_suite_name} : store.suites[n] = 1
    /\ "other_ds" \in store.datasources
    /\ "pandas_datasource" \in store.datasources
    /\ self.context = enterCalls

\* C8: once the session is constructed no step changes self.df or
\* self.gx_suite_name.
C8_TableFixed ==
    [][Constructed
       => ( /\ self'.df = self.df
            /\ self'.gx_suite_name = self.gx_suite_name )]_vars

C8_Witness ==
    /\ pc = "closed"
    /\ enterCalls = 2
    /\ exitCalls = 2
    /\ self.df = "file:b.csv"
    /\ self.gx_suite_name = args.expectation_suite_name

\* C9: an __enter__ that raises after the suite was registered passes the
\* engine's error to the caller, is not followed by __exit__, and leaves
\* the suite registered.
C9_FailedEntryLeavesSuite ==
    [][ /\ (pc' = "enter_raised" /\ enterCalls' # enterCalls
                                 /\ failedAt' >= StepAddPandas)
           => ( /\ error' = "EngineError"
                /\ exitCalls' = exitCalls
                /\ store'.suites[self.gx_suite_name] >= 1 )
        /\ pc = "enter_raised" => exitCalls' = exitCalls ]_vars

C9_Witness ==
    /\ pc = "enter_raised"
    /\ failedAt = StepGetValidator
    /\ entryStore.suites[self.gx_suite_name] = 0
    /\ store.suites[self.gx_suite_name] = 1
    /\ exitCalls = 0

\* C10: no name ever has two suites; a suite that already existed on entry
\* is reused while the session is Active and is gone after __exit__, so the
\* context's suites differ from those before entry.
C10_PreexistingSuiteDeleted ==
    /\ \A n \in Names : store.suites[n] <= 1
    /\ (pc = "active" /\ entryStore.suites[self.gx_suite_name] = 1)
       => store.suites = entryStore.suites
    /\ (pc = "closed" /\ entryStore.suites[self.gx_suite_name] = 1)
       => ( /\ store.suites[self.gx_suite_name] = 0
            /\ store.suites # entryStore.suites )

C10_Witness ==
    /\ pc = "closed"
    /\ enterCalls = 1
    /\ entryStore.suites[self.gx_suite_name] = 1
    /\ store.suites[self.gx_suite_name] = 0
=============================================================================
